---- MODULE Spec2Model ----
(***************************************************************************)
(* A model of mlforecast.core: the TimeSeries class (transform registry,   *)
(* fit / fit_transform, the transform engine, update, predict) over the    *)
(* GroupedArray it stores the series in.                                   *)
(*                                                                         *)
(* Tables are sequences of rows [id, ds, y, st]: the id column, the time   *)
(* column, the target column and one further (static) column.  Times are   *)
(* integers; a timestamp-typed time column is a table whose kind is        *)
(* "datetime" (its times count days) and an offset frequency is the number *)
(* of days it advances.  Sequences are 1-based, so an index of the source  *)
(* is its position here minus one; indptr keeps the source's 0-based       *)
(* offsets.                                                                *)
(***************************************************************************)
EXTENDS Integers, Sequences, FiniteSets, TLC

\* ------------------------------------------------------------- bounds
\* longest series handed to fit
MaxLen == 2
\* largest forecasting horizon of a predict call
MaxHorizon == 2
\* most rows of a table handed to update
MaxNewRows == 2
\* most observations the ground truth is grown to by update
MaxData == 4
\* most rows of an arbitrarily ordered table handed to fit_transform
MaxFitRows == 3
\* most rows of an X_df handed to predict
MaxXRows == 3
\* most lags handed to __init__
MaxLags == 2
\* most (lag, function) items of lag_transforms handed to __init__
MaxTransforms == 2
\* names in a list given to _name_models
MaxNames == 4

\* series identifiers, ordered as the integers are
Ids == {1, 2}
\* the target of the row of series id at time t: every observation of the
\* input tables tells the row it comes from
Obs(id, t) == 10 * id + t
\* values of the static column
Statics == {7, 8}
\* times of the rows handed to update
NewDates == {2, 3}

\* a missing number (np.nan)
NaN == -1
\* a missing id (a null in the id column); sorts after every id
NullId == 99
\* Python's None where a number may stand, and inspect's marker of a
\* parameter that declares no default
None == -9
Empty == -8

\* ------------------------------------------------------------ helpers
RECURSIVE SumSeq(_)
SumSeq(s) == IF s = <<>> THEN 0 ELSE Head(s) + SumSeq(Tail(s))

RECURSIVE Flatten(_)
Flatten(ss) == IF ss = <<>> THEN <<>> ELSE Head(ss) \o Flatten(Tail(ss))

SetMax(S) == CHOOSE x \in S : \A y \in S : y <= x

Range(s) == {s[i] : i \in 1..Len(s)}

\* the elements of a set of integers in increasing order (a sorted index)
RECURSIVE SortedSeq(_)
SortedSeq(S) ==
    IF S = {} THEN <<>>
    ELSE LET m == CHOOSE x \in S : \A y \in S : x <= y
         IN <<m>> \o SortedSeq(S \ {m})

\* the subsequence of s at the positions satisfying keep, in order
RECURSIVE SelectIdx(_, _, _)
SelectIdx(s, keep, i) ==
    IF i > Len(s) THEN <<>>
    ELSE (IF keep[i] THEN <<s[i]>> ELSE <<>>) \o SelectIdx(s, keep, i + 1)

\* position of x in the sequence s (0 when absent)
IndexOf(s, x) == IF \E i \in 1..Len(s) : s[i] = x
                 THEN CHOOSE i \in 1..Len(s) : s[i] = x
                 ELSE 0

\* --------------------------------------------------------- GroupedArray
GroupedArray(data, indptr) == [data |-> data, indptr |-> indptr]

n_groups(g) == Len(g.indptr) - 1

\* slice(i): the observations of group i (1-based), oldest first
GroupOf(g, i) == SubSeq(g.data, g.indptr[i] + 1, g.indptr[i + 1])

GroupLen(g, i) == g.indptr[i + 1] - g.indptr[i]

Groups(g) == [i \in 1..n_groups(g) |-> GroupOf(g, i)]

\* the GroupedArray holding the given groups in the given order
FromGroups(gs) ==
    GroupedArray(Flatten(gs),
                 [i \in 1..Len(gs) + 1 |->
                      SumSeq([k \in 1..i - 1 |-> Len(gs[k])])])

WellFormed(g) ==
    /\ Len(g.indptr) >= 1
    /\ g.indptr[1] = 0
    /\ g.indptr[Len(g.indptr)] = Len(g.data)
    /\ \A i \in 1..Len(g.indptr) - 1 : g.indptr[i] <= g.indptr[i + 1]

\* append(values): one new value at the tail of every group
ga_append(g, vals) ==
    FromGroups([i \in 1..n_groups(g) |-> Append(GroupOf(g, i), vals[i])])

\* take(idxs): the selected groups (idxs are 0-based group numbers)
ga_take(g, idxs) ==
    FromGroups([k \in 1..Len(idxs) |-> GroupOf(g, idxs[k] + 1)])

\* take_from_groups(slice(-n, None)): the last n observations of every group
ga_take_from_groups(g, n) ==
    FromGroups([i \in 1..n_groups(g) |->
        LET x == GroupOf(g, i)
        IN IF Len(x) <= n THEN x ELSE SubSeq(x, Len(x) - n + 1, Len(x))])

\* append_several fails when the counts do not add up to the values
InconsistentSize(new_sizes, new_values) ==
    SumSeq(new_sizes) # Len(new_values)

\* the values entry i of new_sizes takes from new_values
NewChunk(new_sizes, new_values, i) ==
    LET off == SumSeq(SubSeq(new_sizes, 1, i - 1))
    IN SubSeq(new_values, off + 1, off + new_sizes[i])

\* append_several: the existing groups, each extended by its count of new
\* values, followed by the brand-new groups
ga_append_several(g, new_sizes, new_values, new_groups) ==
    LET n       == Len(new_sizes)
        isOld   == [i \in 1..n |-> ~new_groups[i]]
        oldPos  == SelectIdx([i \in 1..n |-> i], isOld, 1)
        newPos  == SelectIdx([i \in 1..n |-> i], new_groups, 1)
        grown   == [j \in 1..Len(oldPos) |->
                       GroupOf(g, j) \o NewChunk(new_sizes, new_values, oldPos[j])]
        created == [j \in 1..Len(newPos) |->
                       NewChunk(new_sizes, new_values, newPos[j])]
    IN FromGroups(grown \o created)

\* shift of one series by lag steps: position j holds x[j - lag]
shift_array(x, lag) ==
    [j \in 1..Len(x) |-> IF j - lag >= 1 THEN x[j - lag] ELSE NaN]

\* the transform functions, each over one (shifted) series
expanding_max(x) ==
    [j \in 1..Len(x) |->
        LET seen == {x[k] : k \in 1..j} \ {NaN}
        IN IF x[j] = NaN \/ seen = {} THEN NaN ELSE SetMax(seen)]

rolling_max(x, window_size, min_samples) ==
    [j \in 1..Len(x) |->
        LET lo   == IF j - window_size + 1 >= 1 THEN j - window_size + 1 ELSE 1
            seen == {k \in lo..j : x[k] # NaN}
            need == IF min_samples = None THEN window_size ELSE min_samples
        IN IF Cardinality(seen) < need THEN NaN
           ELSE SetMax({x[k] : k \in seen})]

ApplyFn(tfm, args, x) ==
    CASE tfm = "_identity"     -> x
      [] tfm = "expanding_max" -> expanding_max(x)
      [] tfm = "rolling_max"   ->
            rolling_max(x, args[1], IF Len(args) >= 2 THEN args[2] ELSE None)

\* transform_series: fn over the lag-shifted groups; the whole history, or
\* with updates_only the most recent value of every group
transform_series(g, updates_only, lag, tfm, args) ==
    LET outs == [i \in 1..n_groups(g) |->
                    ApplyFn(tfm, args, shift_array(GroupOf(g, i), lag))]
    IN IF updates_only
       THEN [i \in 1..n_groups(g) |->
                IF Len(outs[i]) = 0 THEN NaN ELSE outs[i][Len(outs[i])]]
       ELSE Flatten(outs)

\* expand_target: for every observation the next max_horizon values of its
\* series, NaN past the end of the series
expand_target(g, max_horizon) ==
    Flatten([i \in 1..n_groups(g) |->
        LET serie == GroupOf(g, i)
        IN [j \in 1..Len(serie) |->
               [k \in 1..max_horizon |->
                   IF j + k - 1 <= Len(serie) THEN serie[j + k - 1] ELSE NaN]]])

\* ------------------------------------------------------ target transforms
\* A target transform is an object with fit_transform(table) -> table and
\* inverse_transform(table) -> table.  Two are modelled here.  "diff" takes
\* first differences: the first observation of a series has no predecessor
\* and becomes null, and the last observations are kept for the way back.
\* "shift" adds five to every observation and takes it off again.
NewTargetTransform(name) == [name |-> name, last |-> <<>>]

\* fit_transform of one transform over the sorted target
TargetFitTransform(tfm, g) ==
    IF tfm.name = "shift"
    THEN [tfm |-> tfm,
          ga  |-> GroupedArray([p \in 1..Len(g.data) |->
                                   IF g.data[p] = NaN THEN NaN ELSE g.data[p] + 5],
                               g.indptr)]
    ELSE
    [tfm |-> [tfm EXCEPT !.last =
                 [i \in 1..n_groups(g) |-> GroupOf(g, i)[GroupLen(g, i)]]],
     ga  |-> FromGroups([i \in 1..n_groups(g) |->
                 [j \in 1..GroupLen(g, i) |->
                     IF j = 1 THEN NaN ELSE GroupOf(g, i)[j] - GroupOf(g, i)[j - 1]]])]

\* lines 229-232: the transforms applied in the order they were given
RECURSIVE FitTargetTransforms(_, _)
FitTargetTransforms(tfms, g) ==
    IF tfms = <<>> THEN [tfms |-> <<>>, ga |-> g]
    ELSE LET first == TargetFitTransform(Head(tfms), g)
             rest  == FitTargetTransforms(Tail(tfms), first.ga)
         IN [tfms |-> <<first.tfm>> \o rest.tfms, ga |-> rest.ga]

\* inverse_transform of one transform over a table of predictions that has
\* horizon rows for each active series: the differences are summed up from
\* the last observation of the series
TargetInverseTransform(tfm, idxs, table, horizon) ==
    IF tfm.name = "shift"
    THEN [r \in 1..Len(table) |->
             [table[r] EXCEPT !.vals =
                 [m \in 1..Len(table[r].vals) |-> table[r].vals[m] - 5]]]
    ELSE
    [r \in 1..Len(table) |->
        LET s  == ((r - 1) \div horizon) + 1
            k  == ((r - 1) % horizon) + 1
            ti == IF idxs.is_none THEN s ELSE idxs.v[s] + 1
        IN [table[r] EXCEPT !.vals =
               [m \in 1..Len(table[r].vals) |->
                   tfm.last[ti]
                     + SumSeq([j \in 1..k |-> table[(s - 1) * horizon + j].vals[m]])]]]

\* the inverses applied first transform first
RECURSIVE InverseTargetTransforms_forward(_, _, _, _)
InverseTargetTransforms_forward(tfms, idxs, table, horizon) ==
    IF tfms = <<>> THEN table
    ELSE InverseTargetTransforms_forward(
             Tail(tfms), idxs,
             TargetInverseTransform(Head(tfms), idxs, table, horizon), horizon)

\* lines 619-623: the inverses applied last transform first
RECURSIVE InverseTargetTransforms(_, _, _, _)
InverseTargetTransforms(tfms, idxs, table, horizon) ==
    IF tfms = <<>> THEN table
    ELSE InverseTargetTransforms(
             SubSeq(tfms, 1, Len(tfms) - 1), idxs,
             TargetInverseTransform(tfms[Len(tfms)], idxs, table, horizon), horizon)

\* ------------------------------------------------- the transform registry
\* the declared parameters of the transform functions after the input array
FuncParams(tfm) ==
    CASE tfm = "_identity"     -> <<>>
      [] tfm = "expanding_max" -> <<>>
      [] tfm = "raising"       -> <<>>
      [] tfm = "rolling_max"   ->
            << [name |-> "window_size", default |-> Empty],
               [name |-> "min_samples", default |-> None] >>

\* str(value) of an argument
ArgStr(v) == IF v = None THEN "None" ELSE ToString(v)

RECURSIVE JoinUnderscore(_)
JoinUnderscore(parts) ==
    IF Len(parts) = 1 THEN parts[1]
    ELSE parts[1] \o "_" \o JoinUnderscore(Tail(parts))

_build_transform_name(lag, tfm, args) ==
    LET tfm_name  == tfm \o "_lag" \o ToString(lag)
        func_args == FuncParams(tfm)
        n         == IF Len(args) < Len(func_args) THEN Len(args) ELSE Len(func_args)
        differs   == [k \in 1..n |-> func_args[k].default # args[k]]
        changed   == SelectIdx([k \in 1..n |->
                                   func_args[k].name \o ArgStr(args[k])],
                               differs, 1)
    IN IF changed # <<>> THEN tfm_name \o "_" \o JoinUnderscore(changed)
       ELSE tfm_name

\* Counter(current_names)
Counter(current_names) ==
    [x \in Range(current_names) |->
        Cardinality({i \in 1..Len(current_names) : current_names[i] = x})]

\* reversed(current_names)
Reversed(current_names) ==
    [i \in 1..Len(current_names) |-> current_names[Len(current_names) - i + 1]]

\* lines 73-80: the loop over enumerate(order, start=1), writing names[-i]
RECURSIVE NameLoop(_, _, _, _)
NameLoop(order, i, ctr, names) ==
    IF i > Len(order) THEN names
    ELSE LET x     == order[i]
             count == ctr[x]
         IN IF count > 1
            THEN NameLoop(order, i + 1, [ctr EXCEPT ![x] = count - 1],
                          [names EXCEPT ![Len(names) - i + 1] = x \o ToString(count)])
            ELSE NameLoop(order, i + 1, ctr,
                          [names EXCEPT ![Len(names) - i + 1] = x])

\* the loop run over the list as given
_name_models_unreversed(current_names) ==
    IF current_names = <<>> THEN <<>>
    ELSE IF \A x \in Range(current_names) : Counter(current_names)[x] < 2
    THEN current_names
    ELSE NameLoop(current_names, 1, Counter(current_names), current_names)

\* lines 66-81
_name_models(current_names) ==
    IF current_names = <<>> THEN <<>>
    ELSE IF \A x \in Range(current_names) : Counter(current_names)[x] < 2
    THEN current_names
    ELSE NameLoop(Reversed(current_names), 1, Counter(current_names), current_names)

\* an assignment that always makes a new entry
DictSet_append(d, e) == Append(d, e)

\* assignment into an OrderedDict kept as a sequence of [name, lag, tfm, args]:
\* a known key keeps its place and takes the new value
DictSet(d, e) ==
    IF \E i \in 1..Len(d) : d[i].name = e.name
    THEN [i \in 1..Len(d) |-> IF d[i].name = e.name THEN e ELSE d[i]]
    ELSE Append(d, e)

\* the assignments of the two loops, one after another
RECURSIVE RegisterAll(_, _)
RegisterAll(d, entries) ==
    IF entries = <<>> THEN d
    ELSE RegisterAll(DictSet(d, Head(entries)), Tail(entries))

\* the registry __init__ builds from lags (a list) and lag_transforms, given
\* as the sequence of its (lag, function, args) items in iteration order
BuildTransforms(lags, lag_transforms) ==
    LET fromLags == [i \in 1..Len(lags) |->
                        [name |-> "lag" \o ToString(lags[i]), lag |-> lags[i],
                         tfm |-> "_identity", args |-> <<>>]]
        fromTfms == [i \in 1..Len(lag_transforms) |->
                        [name |-> _build_transform_name(lag_transforms[i].lag,
                                     lag_transforms[i].tfm, lag_transforms[i].args),
                         lag  |-> lag_transforms[i].lag,
                         tfm  |-> lag_transforms[i].tfm,
                         args |-> lag_transforms[i].args]]
    IN RegisterAll(RegisterAll(<<>>, fromLags), fromTfms)

TransformNames(tfms) == [i \in 1..Len(tfms) |-> tfms[i].name]

\* ------------------------------------------------------------- tables
\* the order of sort_values([id, time]) and of the processor's sort
RowLess(a, b) == a.id < b.id \/ (a.id = b.id /\ a.ds < b.ds)

\* where row r lands in the (stable) sort of rows
SortRank(rows, r) ==
    1 + Cardinality({q \in 1..Len(rows) :
                        \/ RowLess(rows[q], rows[r])
                        \/ (~RowLess(rows[r], rows[q]) /\ q < r)})

\* sort_idxs: position k of the sorted table holds input row sort_idxs[k]
SortIdxs(rows) ==
    [k \in 1..Len(rows) |-> CHOOSE r \in 1..Len(rows) : SortRank(rows, r) = k]

SortRows(rows) == [k \in 1..Len(rows) |-> rows[SortIdxs(rows)[k]]]

IsSorted(rows) == \A k \in 1..Len(rows) : SortIdxs(rows)[k] = k

\* the rows of one id, in table order
RowsOf(rows, id) ==
    SelectIdx(rows, [i \in 1..Len(rows) |-> rows[i].id = id], 1)

CountOf(rows, id) == Len(RowsOf(rows, id))

\* the ids of a table, nulls left out as groupby leaves them out
GroupKeys(rows) == {rows[i].id : i \in 1..Len(rows)} \ {NullId}

\* ---------------------------------------------------------------- state
VARIABLES
    \* set by __init__
    freq, num_threads, transforms,
    \* the ground truth: set by fit, changed by update
    uids, last_dates, static_features_, _ga,
    \* set by fit_transform
    restore_idxs, keep_last_n, max_horizon, static_features,
    \* given to __init__, each transform keeping what its fit stores
    target_transforms,
    \* the working state of predict
    ga, curr_dates, test_dates, y_pred, _h, _uids, _idxs,
    \* the call in progress: its position, its arguments, its table so far
    pc, call, preds,
    \* what the last finished call returned or raised
    ret

config == <<freq, num_threads, transforms>>
truth  == <<uids, last_dates, static_features_, _ga>>
fitted == <<restore_idxs, keep_last_n, max_horizon, static_features,
            target_transforms>>
work   == <<ga, curr_dates, test_dates, y_pred, _h, _uids, _idxs>>
vars   == <<config, truth, fitted, work, pc, call, preds, ret>>

\* an absent ids selection (self._idxs = None), and one holding group numbers
NoIdxs      == [is_none |-> TRUE, v |-> <<>>]
SomeIdxs(v) == [is_none |-> FALSE, v |-> v]

NoCall == [op |-> "none"]
NoArgs == [models |-> <<>>]
TableArgs(df) == [df |-> df]
Returned(op, args, out) == [op |-> op, err |-> "", out |-> out, args |-> args]
Raised(op, args, err)   == [op |-> op, err |-> err, out |-> <<>>, args |-> args]

\* ------------------------------------------------------------- update
\* The pieces update computes from the sorted new rows, lines 629-655.
UpdSizesIndex(old_uids, rows) == SortedSeq(Range(old_uids) \cup GroupKeys(rows))

\* the counts of the new rows laid on the index by position, not by id
UpdSizes_positional(old_uids, rows) ==
    LET idx  == UpdSizesIndex(old_uids, rows)
        keys == SortedSeq(GroupKeys(rows))
    IN [i \in 1..Len(idx) |->
           IF i <= Len(keys) THEN CountOf(rows, keys[i]) ELSE 0]

UpdSizes(old_uids, rows) ==
    LET idx == UpdSizesIndex(old_uids, rows)
    IN [i \in 1..Len(idx) |-> CountOf(rows, idx[i])]

UpdNewGroups(old_uids, rows) ==
    LET idx == UpdSizesIndex(old_uids, rows)
    IN [i \in 1..Len(idx) |-> idx[i] \notin Range(old_uids)]

UpdLastDates(old_uids, old_dates, rows) ==
    LET idx == UpdSizesIndex(old_uids, rows)
    IN [i \in 1..Len(idx) |->
          IF CountOf(rows, idx[i]) > 0
          THEN SetMax({rows[k].ds : k \in {j \in 1..Len(rows) : rows[j].id = idx[i]}})
          ELSE old_dates[IndexOf(old_uids, idx[i])]]

\* the first row of every id instead of its last
UpdNewStatic_first(sorted, id) ==
    LET keys      == SortedSeq(GroupKeys(sorted))
        new_sizes == [k \in 1..Len(keys) |-> CountOf(sorted, keys[k])]
        k         == IndexOf(keys, id)
    IN sorted[SumSeq(SubSeq(new_sizes, 1, k - 1)) + 1]

\* new_statics: the row at cumsum(new_sizes) - 1 of the sorted table, per id
UpdNewStatic(sorted, id) ==
    LET keys      == SortedSeq(GroupKeys(sorted))
        new_sizes == [k \in 1..Len(keys) |-> CountOf(sorted, keys[k])]
        k         == IndexOf(keys, id)
    IN sorted[SumSeq(SubSeq(new_sizes, 1, k))]

UpdStatics(old_uids, old_statics, sorted) ==
    LET idx == UpdSizesIndex(old_uids, sorted)
    IN [i \in 1..Len(idx) |->
          IF CountOf(sorted, idx[i]) > 0
          THEN [id |-> idx[i], st |-> UpdNewStatic(sorted, idx[i]).st]
          ELSE old_statics[IndexOf(old_uids, idx[i])]]

Update(df) ==
    /\ pc = "idle"
    /\ Len(uids) > 0
    /\ \E sorted \in {SortRows(df)} :
       \E sizes \in {UpdSizes(uids, sorted)} :
       \E values \in {[k \in 1..Len(sorted) |-> sorted[k].y]} :
       \E new_groups \in {UpdNewGroups(uids, sorted)} :
          /\ last_dates' = UpdLastDates(uids, last_dates, sorted)
          /\ uids' = UpdSizesIndex(uids, sorted)
          /\ static_features_' = UpdStatics(uids, static_features_, sorted)
          /\ IF InconsistentSize(sizes, values)
             THEN /\ _ga' = _ga
                  /\ ret' = Raised("update", TableArgs(df), "InconsistentSizeError")
             ELSE /\ _ga' = ga_append_several(_ga, sizes, values, new_groups)
                  /\ ret' = Returned("update", TableArgs(df), <<>>)
    /\ UNCHANGED <<config, fitted, work, pc, call, preds>>

\* ---------------------------------------------------- the transform engine
\* the permutations of 1..n: the orders in which n tasks can complete
Orders(n) == {p \in [1..n -> 1..n] : \A i, j \in 1..n : p[i] = p[j] => i = j}

\* the value a results dict holds under a name
DictGet(results, name) ==
    results[CHOOSE i \in 1..Len(results) : results[i].name = name].vals

\* one task with the registered lag whatever the mode
RunTransform_nooffset(e, g, updates_only) ==
    transform_series(g, updates_only, e.lag, e.tfm, e.args)

\* one task: a registered transform over the GroupedArray
RunTransform(e, g, updates_only) ==
    transform_series(g, updates_only,
                     e.lag - (IF updates_only THEN 1 ELSE 0), e.tfm, e.args)

\* _apply_transforms: the results dict, filled in registration order
_apply_transforms(tfms, g, updates_only) ==
    [i \in 1..Len(tfms) |->
        [name |-> tfms[i].name, vals |-> RunTransform(tfms[i], g, updates_only)]]

\* _apply_multithreaded_transforms: the results dict, filled in the order
\* the futures complete
_apply_multithreaded_transforms(tfms, g, updates_only, order) ==
    [k \in 1..Len(tfms) |->
        [name |-> tfms[order[k]].name,
         vals |-> RunTransform(tfms[order[k]], g, updates_only)]]

Multithreaded(nthreads, tfms) == ~(nthreads = 1 \/ Len(tfms) = 1)

\* the completion orders a pass over the registry can see
PassOrders(nthreads, tfms) ==
    IF Multithreaded(nthreads, tfms) THEN Orders(Len(tfms))
    ELSE {[i \in 1..Len(tfms) |-> i]}

\* _compute_transforms / the choice made in _update_features
ComputePass(nthreads, tfms, g, updates_only, order) ==
    IF Multithreaded(nthreads, tfms)
    THEN _apply_multithreaded_transforms(tfms, g, updates_only, order)
    ELSE _apply_transforms(tfms, g, updates_only)

\* the feature columns taken in the order the results dict holds them
FeatureColumns_positional(tfms, results) ==
    [i \in 1..Len(tfms) |-> results[i].vals]

\* the feature columns as the callers lay them out: one per registry key, in
\* registry order, each looked up by name in the results dict
FeatureColumns(tfms, results) ==
    [i \in 1..Len(tfms) |-> DictGet(results, tfms[i].name)]

\* a transform function that raises on whatever it is given, and what it
\* raises: the exception is the function's own, made without any knowledge
\* of the name the registry built for it
Raises(e) == e.tfm = "raising"

FnException(e) == "ValueError"

\* _apply_multithreaded_transforms step by step.  The call in progress
\* keeps how many tasks the loop has submitted, how many the pool has
\* started (it starts them in the order submitted, num_threads at a time),
\* the tasks running, the state of every future and the results dict.
PoolOp == "_apply_multithreaded_transforms"

NewFuture == [done |-> FALSE, result |-> <<>>, exc |-> ""]

\* line 272: the pool is opened
PoolOpen(updates_only) ==
    /\ pc = "idle"
    /\ Len(uids) > 0
    /\ pc' = "submit"
    /\ call' = [op |-> PoolOp, args |-> [updates_only |-> updates_only],
                submitted |-> 0, started |-> 0, running |-> {},
                futures |-> [i \in 1..Len(transforms) |-> NewFuture],
                collected |-> {}, results |-> <<>>, exc |-> ""]
    /\ UNCHANGED <<config, truth, fitted, work, preds, ret>>

\* lines 273-281: the next transform of the registry is submitted
PoolSubmit ==
    /\ pc = "submit"
    /\ call.submitted < Len(transforms)
    /\ call' = [call EXCEPT !.submitted = @ + 1]
    /\ pc' = IF call.submitted + 1 = Len(transforms) THEN "collect" ELSE "submit"
    /\ UNCHANGED <<config, truth, fitted, work, preds, ret>>

\* a free worker takes the oldest task waiting
WorkerStart ==
    /\ pc \in {"submit", "collect", "shutdown"}
    /\ call.started < call.submitted
    /\ Cardinality(call.running) < num_threads
    /\ call' = [call EXCEPT !.started = @ + 1,
                            !.running = @ \cup {call.started + 1}]
    /\ UNCHANGED <<config, truth, fitted, work, pc, preds, ret>>

\* a worker finishes its task: transform_series over self.ga
WorkerFinish ==
    /\ pc \in {"submit", "collect", "shutdown"}
    /\ \E i \in call.running :
         call' = [call EXCEPT
                    !.running = @ \ {i},
                    !.futures[i] =
                        IF Raises(transforms[i])
                        THEN [done |-> TRUE, result |-> <<>>,
                              exc  |-> FnException(transforms[i])]
                        ELSE [done   |-> TRUE,
                              result |-> RunTransform(transforms[i], ga,
                                                      call.args.updates_only),
                              exc    |-> ""]]
    /\ UNCHANGED <<config, truth, fitted, work, pc, preds, ret>>

\* lines 282-284: as_completed hands over a finished future and its result
\* is stored under the name of its transform
PoolCollect ==
    /\ pc = "collect"
    /\ \E i \in 1..Len(transforms) :
         /\ call.futures[i].done
         /\ call.futures[i].exc = ""
         /\ i \notin call.collected
         /\ call' = [call EXCEPT
                        !.collected = @ \cup {i},
                        !.results = DictSet(@, [name |-> transforms[i].name,
                                                vals |-> call.futures[i].result])]
    /\ UNCHANGED <<config, truth, fitted, work, pc, preds, ret>>

\* line 287: future.result() raises what the task raised, and the with
\* block is left: the pool is shut down, which waits for every task
PoolCollectFailed ==
    /\ pc = "collect"
    /\ \E i \in 1..Len(transforms) :
         /\ call.futures[i].done
         /\ call.futures[i].exc # ""
         /\ call' = [call EXCEPT !.exc = call.futures[i].exc]
    /\ pc' = "shutdown"
    /\ UNCHANGED <<config, truth, fitted, work, preds, ret>>

\* the pool has shut down and the exception leaves the call
PoolRaise ==
    /\ pc = "shutdown"
    /\ call.started = Len(transforms)
    /\ call.running = {}
    /\ ret' = Raised(PoolOp, call.args, call.exc)
    /\ pc' = "idle"
    /\ call' = NoCall
    /\ UNCHANGED <<config, truth, fitted, work, preds>>

\* line 285, and the caller laying out the columns (lines 351-353, 426)
PoolReturn ==
    /\ pc = "collect"
    /\ call.collected = 1..Len(transforms)
    /\ ret' = Returned(PoolOp, call.args,
                       [results |-> call.results,
                        columns |-> FeatureColumns(transforms, call.results)])
    /\ pc' = "idle"
    /\ call' = NoCall
    /\ UNCHANGED <<config, truth, fitted, work, preds>>

\* ---------------------------------------------------------- fit_transform
\* the checks of _fit without the one on the target
FitError_nonulls(df, f) ==
    IF df.kind = "datetime" /\ f = 1 THEN "MissingFrequencyError" ELSE ""

\* the checks _fit makes before it stores anything
FitError(df, f) ==
    IF \E i \in 1..Len(df.rows) : df.rows[i].y = NaN THEN "NullTargetError"
    ELSE IF df.kind = "datetime" /\ f = 1 THEN "MissingFrequencyError"
    ELSE ""

\* what the processor returns for the table
ProcUids(rows)   == SortedSeq({rows[i].id : i \in 1..Len(rows)})
ProcTimes(rows)  ==
    LET u == ProcUids(rows)
    IN [i \in 1..Len(u) |-> RowsOf(SortRows(rows), u[i])[CountOf(rows, u[i])].ds]
ProcIndptr(rows) ==
    LET u == ProcUids(rows)
    IN [i \in 1..Len(u) + 1 |->
           SumSeq([k \in 1..i - 1 |-> CountOf(rows, u[k])])]

\* the sort permutation itself stored as restore_idxs
RestoreIdxs_sortidxs(rows) == SortIdxs(rows)

\* lines 221-226, restore_idxs[sort_idxs] = arange: the inverse of the sort
\* permutation
RestoreIdxs(rows) ==
    IF IsSorted(rows) THEN [r \in 1..Len(rows) |-> r]
    ELSE [r \in 1..Len(rows) |->
             CHOOSE k \in 1..Len(rows) : SortIdxs(rows)[k] = r]

FitGA(rows) ==
    GroupedArray([k \in 1..Len(rows) |-> SortRows(rows)[k].y], ProcIndptr(rows))

\* static_features_: the last row of every series, its static columns
FitStatics(rows, statics) ==
    LET g    == FitGA(rows)
        last == [i \in 1..n_groups(g) |-> SortIdxs(rows)[g.indptr[i + 1]]]
    IN [i \in 1..n_groups(g) |->
           [id |-> rows[last[i]].id,
            st |-> IF statics = <<"st">> THEN rows[last[i]].st ELSE None]]

\* the rows kept when one null horizon is enough to drop a row
KeepRows_anynull(n, features, target, drop) ==
    [r \in 1..n |->
        IF drop
        THEN LET feature_nulls == \E i \in 1..Len(features) : features[i][r] = NaN
                 target_nulls  == \E k \in 1..Len(target[r]) : target[r][k] = NaN
             IN ~(feature_nulls \/ target_nulls)
        ELSE TRUE]

\* the rows _transform keeps
KeepRows(n, features, target, drop) ==
    [r \in 1..n |->
        IF drop
        THEN LET feature_nulls == \E i \in 1..Len(features) : features[i][r] = NaN
                 target_nulls  == \A k \in 1..Len(target[r]) : target[r][k] = NaN
             IN ~(feature_nulls \/ target_nulls)
        ELSE TRUE]

\* _transform: the features and the target laid on the rows of the input
\* table.  The target of a row is a sequence: one value with max_horizon
\* unset, max_horizon values otherwise.
Transform(rows, tfms, g, restore, results, drop, horizon) ==
    LET n        == Len(rows)
        features == [i \in 1..Len(tfms) |->
                        [r \in 1..n |-> DictGet(results, tfms[i].name)[restore[r]]]]
        target   == IF horizon = None
                    THEN [r \in 1..n |-> <<g.data[restore[r]]>>]
                    ELSE [r \in 1..n |-> expand_target(g, horizon)[restore[r]]]
        keep     == KeepRows(n, features, target, drop)
        table    == [r \in 1..n |->
                        [row    |-> r,
                         id     |-> rows[r].id,
                         ds     |-> rows[r].ds,
                         st     |-> rows[r].st,
                         feats  |-> [i \in 1..Len(tfms) |-> features[i][r]],
                         target |-> target[r]]]
    IN SelectIdx(table, keep, 1)

FitTransform(df, statics, drop, keep_n, horizon) ==
    /\ pc = "idle"
    /\ IF FitError(df, freq) # ""
       THEN /\ ret' = Raised("fit_transform", [df |-> df, dropna |-> drop], FitError(df, freq))
            /\ UNCHANGED <<config, truth, fitted, work>>
       ELSE /\ freq' = (IF df.kind = "int" THEN 1 ELSE freq)
            /\ keep_last_n' = keep_n
            /\ static_features' = statics
            /\ uids' = ProcUids(df.rows)
            /\ last_dates' = ProcTimes(df.rows)
            /\ static_features_' = FitStatics(df.rows, statics)
            /\ max_horizon' = (IF \E i \in 1..Len(transforms) : Raises(transforms[i])
                               THEN max_horizon ELSE horizon)
            /\ \E fit \in {FitTargetTransforms(target_transforms, FitGA(df.rows))},
                  restore \in {RestoreIdxs(df.rows)} :
               \E g \in {fit.ga} :
                 /\ target_transforms' = fit.tfms
                 /\ restore_idxs' = restore
                 /\ ga' = g
                 /\ _ga' = g
                 /\ IF \E i \in 1..Len(transforms) : Raises(transforms[i])
                    THEN ret' = Raised("fit_transform",
                                       [df |-> df, dropna |-> drop],
                                       FnException(CHOOSE e \in Range(transforms) : Raises(e)))
                    ELSE
                    \E order \in PassOrders(num_threads, transforms) :
                    \E results \in {ComputePass(num_threads, transforms, g, FALSE, order)} :
                      ret' = Returned("fit_transform",
                                      [df |-> df, dropna |-> drop],
                                      Transform(df.rows, transforms, g, restore,
                                                results, drop, horizon))
            /\ UNCHANGED <<num_threads, transforms,
                           curr_dates, test_dates, y_pred, _h, _uids, _idxs>>
    /\ UNCHANGED <<pc, call, preds>>

\* --------------------------------------------------------------- predict
\* no ids list / no X_df (None), and the given ones
NoIds      == [is_none |-> TRUE, v |-> <<>>]
SomeIds(v) == [is_none |-> FALSE, v |-> v]
NoX        == [is_none |-> TRUE, col |-> "", rows |-> <<>>]
SomeX(col, rows) == [is_none |-> FALSE, col |-> col, rows |-> rows]

\* a number as a model reads it
Num(v) == IF v = NaN \/ v = None THEN 0 ELSE v

\* model.predict on one row of the feature table: the models considered
\* are a constant one, one that reads every column it is given, one that
\* returns its first lag feature, one that returns one more than its first
\* lag feature and one that returns the column st
ModelPredict(m, row) ==
    CASE m = "zero" -> 0
      [] m = "inc"  -> IF Len(row.feats) = 0 THEN 0 ELSE Num(row.feats[1]) + 1
      [] m = "exo"  -> Num(row.st)
      [] m = "mix"  ->
            (1 + Num(row.st) + SumSeq([i \in 1..Len(row.feats) |-> Num(row.feats[i])])) % 3
      [] m = "last" -> IF Len(row.feats) = 0 THEN 0 ELSE Num(row.feats[1])

\* lines 556-568: the ids the call is about
SelMask(all_uids, ids) == [i \in 1..Len(all_uids) |-> all_uids[i] \in Range(ids.v)]
SelUids(all_uids, ids) ==
    IF ids.is_none THEN all_uids ELSE SelectIdx(all_uids, SelMask(all_uids, ids), 1)
SelIdxs(all_uids, ids) ==
    IF ids.is_none THEN NoIdxs
    ELSE SomeIdxs(SelectIdx([i \in 1..Len(all_uids) |-> i - 1],
                            SelMask(all_uids, ids), 1))
SelDates(all_uids, dates, ids) ==
    IF ids.is_none THEN dates
    ELSE SelectIdx(dates, SelMask(all_uids, ids), 1)

\* an unseen-ids check that finds nothing
Unseen_nothing(all_uids, ids) == {}

Unseen(all_uids, ids) ==
    IF ids.is_none THEN {} ELSE Range(ids.v) \ Range(all_uids)

\* lines 585-593: the rows of X_df of a requested id whose time lies
\* between that id's first and last forecast date
XValid(X, sel_uids, sel_dates, f, horizon) ==
    SelectIdx(X.rows,
              [i \in 1..Len(X.rows) |->
                  \E k \in 1..Len(sel_uids) :
                      /\ X.rows[i].id = sel_uids[k]
                      /\ X.rows[i].ds >= sel_dates[k] + f
                      /\ X.rows[i].ds <= sel_dates[k] + horizon * f],
              1)

\* lines 569-598: what predict raises over X_df ("" when nothing)
XError(X, statics, sel_uids, sel_dates, f, horizon) ==
    IF X.is_none THEN ""
    ELSE IF X.col \in Range(statics) THEN "StaticDynamicConflictError"
    ELSE IF Len(XValid(X, sel_uids, sel_dates, f, horizon)) # Len(sel_uids) * horizon
         THEN "MissingExogenousRowsError"
    ELSE ""

\* lines 599-601: X_df as the step loop reads it, sorted by id and time, the
\* id and time columns dropped
XProcessed(X, sel_uids, sel_dates, f, horizon) ==
    IF X.is_none THEN <<>>
    ELSE LET sorted == SortRows(XValid(X, sel_uids, sel_dates, f, horizon))
         IN [i \in 1..Len(sorted) |-> sorted[i].x]

PredictArgs(models, horizon, ids, X) ==
    [models |-> models, horizon |-> horizon, ids |-> ids, X |-> X]

\* predict up to the dispatch of line 602
Predict(models, horizon, ids, X) ==
    /\ pc = "idle"
    /\ Len(uids) > 0
    /\ LET args == PredictArgs(models, horizon, ids, X)
           su   == SelUids(uids, ids)
           sd   == SelDates(uids, last_dates, ids)
       IN IF Unseen(uids, ids) # {}
          THEN /\ ret' = Raised("predict", [ids |-> ids], "UnseenIdsError")
               /\ UNCHANGED <<work, pc, call, preds>>
          ELSE /\ _uids' = su
               /\ _idxs' = SelIdxs(uids, ids)
               /\ UNCHANGED <<ga, curr_dates, test_dates, y_pred, _h>>
               /\ IF XError(X, static_features, su, sd, freq, horizon) # ""
                  THEN /\ ret' = Raised("predict", args,
                                   XError(X, static_features, su, sd, freq, horizon))
                       /\ UNCHANGED <<pc, call, preds>>
                  ELSE /\ pc' = (IF max_horizon = None THEN "setup" ELSE "multi")
                       /\ call' = [op |-> "predict", args |-> args, i |-> 1,
                                   X_df |-> XProcessed(X, su, sd, freq, horizon)]
                       /\ preds' = <<>>
                       /\ UNCHANGED ret
    /\ UNCHANGED <<config, truth, fitted>>

\* the date index of a setup that forgets the selection
SetupDates_positional(dates, idxs) ==
    IF idxs.is_none THEN dates
    ELSE [k \in 1..Len(idxs.v) |-> dates[k]]

\* the working GroupedArray restored for the first model only
SetupGA_carried(truth_ga, idxs, keep_n) ==
    IF call.i > 1 THEN ga
    ELSE LET taken == IF idxs.is_none
                      THEN GroupedArray(truth_ga.data, truth_ga.indptr)
                      ELSE ga_take(truth_ga, idxs.v)
         IN IF keep_n # None THEN ga_take_from_groups(taken, keep_n) ELSE taken

\* the working GroupedArray _predict_setup builds
SetupGA(truth_ga, idxs, keep_n) ==
    LET taken == IF idxs.is_none THEN GroupedArray(truth_ga.data, truth_ga.indptr)
                 ELSE ga_take(truth_ga, idxs.v)
    IN IF keep_n # None THEN ga_take_from_groups(taken, keep_n) ELSE taken

\* the date index _predict_setup starts the simulation from
SetupDates(dates, idxs) ==
    IF idxs.is_none THEN dates
    ELSE [k \in 1..Len(idxs.v) |-> dates[idxs.v[k] + 1]]

\* _predict_setup
PredictSetup ==
    /\ pc = "setup"
    /\ ga' = SetupGA(_ga, _idxs, keep_last_n)
    /\ curr_dates' = SetupDates(last_dates, _idxs)
    /\ test_dates' = <<>>
    /\ y_pred' = <<>>
    /\ _h' = 0
    /\ pc' = "step"
    /\ UNCHANGED <<config, truth, fitted, _uids, _idxs, call, preds, ret>>

\* _update_features: the feature table of the next step, one row per row of
\* the static table whose id is among the active ones
UpdateFeatures(dates, results) ==
    LET cols        == FeatureColumns(transforms, results)
        features_df == [i \in 1..Len(_uids) |->
                           [id    |-> _uids[i],
                            ds    |-> dates[i],
                            feats |-> [c \in 1..Len(cols) |-> cols[c][i]]]]
    IN Flatten([s \in 1..Len(static_features_) |->
          LET hit == SelectIdx(features_df,
                        [i \in 1..Len(features_df) |->
                            features_df[i].id = static_features_[s].id], 1)
          IN [j \in 1..Len(hit) |->
                 [id |-> hit[j].id, ds |-> hit[j].ds, feats |-> hit[j].feats,
                  st |-> static_features_[s].st]]])

\* the rows of X_df _get_features_for_next_step lays beside the features
XSlice(X_df, h, n_series) ==
    [i \in 1..n_series |->
        IF h * n_series + i <= Len(X_df) THEN X_df[h * n_series + i] ELSE NaN]

\* new_x[features_order_]: the columns the model is given
ModelRows(new_x, X, xs) ==
    [i \in 1..Len(new_x) |->
        [st    |-> IF "st" \in Range(static_features) THEN new_x[i].st ELSE xs[i],
         feats |-> new_x[i].feats]]

\* a column of features_order_ that neither the static table nor X_df brings
MissingColumn(X) ==
    "st" \notin Range(static_features) /\ (X.is_none \/ X.col # "st")

CurrentModel == call.args.models[call.i]

\* an _update_y that records the predictions but never extends the series
_update_y_norecord(g, yp, new) ==
    [y_pred |-> Append(yp, new), ga |-> g]

\* _update_y: the predictions are recorded and appended to every series
_update_y(g, yp, new) ==
    [y_pred |-> Append(yp, new), ga |-> ga_append(g, new)]

\* one pass of the loop of lines 492-500
PredictStep ==
    /\ pc = "step"
    /\ Len(y_pred) < call.args.horizon
    /\ \E dates \in {[i \in 1..Len(curr_dates) |-> curr_dates[i] + freq]} :
          /\ curr_dates' = dates
          /\ test_dates' = Append(test_dates, dates)
          /\ _h' = _h + 1
          /\ IF MissingColumn(call.args.X)
             THEN /\ ret' = Raised("predict", call.args, "KeyError")
                  /\ pc' = "idle"
                  /\ call' = NoCall
                  /\ UNCHANGED <<ga, y_pred>>
             ELSE /\ \E order \in PassOrders(num_threads, transforms) :
                      \E results \in {ComputePass(num_threads, transforms, ga, TRUE, order)} :
                      \E new_x \in {UpdateFeatures(dates, results)} :
                      \E xs \in {XSlice(call.X_df, _h, Len(_uids))} :
                      \E rows \in {ModelRows(new_x, call.args.X, xs)} :
                      \E predictions \in
                            {[i \in 1..Len(rows) |-> ModelPredict(CurrentModel, rows[i])]} :
                          /\ y_pred' = _update_y(ga, y_pred, predictions).y_pred
                          /\ ga' = _update_y(ga, y_pred, predictions).ga
                  /\ UNCHANGED <<pc, ret, call>>
    /\ UNCHANGED <<config, truth, fitted, _uids, _idxs, preds>>

\* y_pred flattened step by step
RawPredictions_stepmajor(yp, n_series) ==
    Flatten(yp)

\* _get_raw_predictions: y_pred flattened series by series
RawPredictions(yp, n_series) ==
    Flatten([s \in 1..n_series |-> [k \in 1..Len(yp) |-> yp[k][s]]])

\* _get_predictions: ids repeated once per step, dates and values flattened
\* series by series
GetPredictions(sel_uids, dates, yp) ==
    LET n_preds == Len(yp)
        ids     == Flatten([s \in 1..Len(sel_uids) |-> [k \in 1..n_preds |-> sel_uids[s]]])
        times   == Flatten([s \in 1..Len(sel_uids) |-> [k \in 1..Len(dates) |-> dates[k][s]]])
        raw     == RawPredictions(yp, Len(sel_uids))
    IN [r \in 1..Len(ids) |-> [id |-> ids[r], ds |-> times[r], vals |-> <<raw[r]>>]]

\* lines 501-507: the finished simulation of one model becomes a column
PredictCollect ==
    /\ pc = "step"
    /\ Len(y_pred) = call.args.horizon
    /\ preds' = IF call.i = 1
                THEN GetPredictions(_uids, test_dates, y_pred)
                ELSE LET raw == RawPredictions(y_pred, Len(_uids))
                     IN [r \in 1..Len(preds) |->
                            [preds[r] EXCEPT !.vals = Append(@, raw[r])]]
    /\ IF call.i < Len(call.args.models)
       THEN /\ call' = [call EXCEPT !.i = @ + 1]
            /\ pc' = "setup"
       ELSE /\ pc' = "finish"
            /\ UNCHANGED call
    /\ UNCHANGED <<config, truth, fitted, work, ret>>

\* ------------------------------------------- direct multi-horizon predict
\* a horizon check that lets every horizon through
HorizonTooLarge_never(horizon, fitted_horizon) == FALSE

\* line 519
HorizonTooLarge(horizon, fitted_horizon) == horizon > fitted_horizon

\* lines 525-532: the id column, the active ids each repeated horizon times,
\* and the time column, horizon dates after each of self.last_dates
MultiUids(sel_uids, horizon) ==
    Flatten([s \in 1..Len(sel_uids) |-> [k \in 1..horizon |-> sel_uids[s]]])

MultiDates(dates, f, horizon) ==
    Flatten([d \in 1..Len(dates) |-> [k \in 1..horizon |-> dates[d] + k * f]])

\* the estimator of horizon 0 whatever i
ModelPredictAt_first(m, i, row) == ModelPredict(m, row)

\* model[i].predict on one row: the estimator of horizon i (from 0) of a
\* model
ModelPredictAt(m, i, row) == ModelPredict(m, row) + i

\* lines 518-533: the horizon is checked and the frame of the result built;
\* a DataFrame whose columns differ in length cannot be built
PredictMultiStart ==
    /\ pc = "multi"
    /\ IF HorizonTooLarge(call.args.horizon, max_horizon)
       THEN /\ ret' = Raised("predict", call.args, "HorizonTooLargeError")
            /\ pc' = "idle"
            /\ call' = NoCall
            /\ UNCHANGED preds
       ELSE \E ids \in {MultiUids(_uids, call.args.horizon)},
               dates \in {MultiDates(last_dates, freq, call.args.horizon)} :
              IF Len(ids) # Len(dates)
              THEN /\ ret' = Raised("predict", call.args, "LengthMismatchError")
                   /\ pc' = "idle"
                   /\ call' = NoCall
                   /\ UNCHANGED preds
              ELSE /\ preds' = [r \in 1..Len(ids) |->
                                   [id |-> ids[r], ds |-> dates[r], vals |-> <<>>]]
                   /\ pc' = "msetup"
                   /\ UNCHANGED <<call, ret>>
    /\ UNCHANGED <<config, truth, fitted, work>>

\* line 535: _predict_setup before each model
PredictMultiSetup ==
    /\ pc = "msetup"
    /\ ga' = SetupGA(_ga, _idxs, keep_last_n)
    /\ curr_dates' = SetupDates(last_dates, _idxs)
    /\ test_dates' = <<>>
    /\ y_pred' = <<>>
    /\ _h' = 0
    /\ pc' = "mmodel"
    /\ UNCHANGED <<config, truth, fitted, _uids, _idxs, call, preds, ret>>

\* lines 536-543: the features are computed once and every estimator of
\* the model predicts from them; the predictions become a column, series
\* by series
PredictMultiModel ==
    /\ pc = "mmodel"
    /\ \E dates \in {[i \in 1..Len(curr_dates) |-> curr_dates[i] + freq]} :
          /\ curr_dates' = dates
          /\ test_dates' = Append(test_dates, dates)
          /\ _h' = _h + 1
          /\ IF MissingColumn(call.args.X)
             THEN /\ ret' = Raised("predict", call.args, "KeyError")
                  /\ pc' = "idle"
                  /\ call' = NoCall
                  /\ UNCHANGED preds
             ELSE /\ \E order \in PassOrders(num_threads, transforms) :
                      \E results \in {ComputePass(num_threads, transforms, ga, TRUE, order)} :
                      \E new_x \in {UpdateFeatures(dates, results)} :
                      \E xs \in {XSlice(call.X_df, _h, Len(_uids))} :
                      \E rows \in {ModelRows(new_x, call.args.X, xs)} :
                      \E raw_preds \in
                            {Flatten([s \in 1..Len(rows) |->
                                [k \in 1..call.args.horizon |->
                                    ModelPredictAt(CurrentModel, k - 1, rows[s])]])} :
                          preds' = [r \in 1..Len(preds) |->
                                       [preds[r] EXCEPT !.vals = Append(@, raw_preds[r])]]
                  /\ IF call.i < Len(call.args.models)
                     THEN /\ call' = [call EXCEPT !.i = @ + 1]
                          /\ pc' = "msetup"
                     ELSE /\ pc' = "finish"
                          /\ UNCHANGED call
                  /\ UNCHANGED ret
    /\ UNCHANGED <<config, truth, fitted, ga, y_pred, _uids, _idxs>>

\* lines 619-625: the table is returned and the selection forgotten
PredictFinish ==
    /\ pc = "finish"
    /\ _uids' = <<>>
    /\ _idxs' = NoIdxs
    /\ ret' = Returned("predict", call.args,
                      InverseTargetTransforms(target_transforms, _idxs, preds,
                                              call.args.horizon))
    /\ pc' = "idle"
    /\ call' = NoCall
    /\ preds' = <<>>
    /\ UNCHANGED <<config, truth, fitted, ga, curr_dates, test_dates, y_pred, _h>>

\* ------------------------------------------------------- specifications
\* the object __init__ leaves: nothing fitted, no call made
Construct(f, nthreads, lags, lag_transforms, target_tfms) ==
    /\ freq = f
    /\ target_transforms = [i \in 1..Len(target_tfms) |->
                               NewTargetTransform(target_tfms[i])]
    /\ num_threads = nthreads
    /\ transforms = BuildTransforms(lags, lag_transforms)
    /\ uids = <<>>
    /\ last_dates = <<>>
    /\ static_features_ = <<>>
    /\ _ga = GroupedArray(<<>>, <<0>>)
    /\ restore_idxs = <<>>
    /\ keep_last_n = None
    /\ max_horizon = None
    /\ static_features = <<>>
    /\ ga = GroupedArray(<<>>, <<0>>)
    /\ curr_dates = <<>>
    /\ test_dates = <<>>
    /\ y_pred = <<>>
    /\ _h = 0
    /\ _uids = <<>>
    /\ _idxs = NoIdxs
    /\ pc = "idle"
    /\ call = NoCall
    /\ preds = <<>>
    /\ ret = Returned("__init__",
                      [lags |-> lags, lag_transforms |-> lag_transforms], <<>>)

\* the arguments of __init__ the objects are constructed with
OneLag   == [lags |-> <<1>>, lag_transforms |-> <<>>]
TwoLags  == [lags |-> <<1, 2>>,
             lag_transforms |-> <<[lag |-> 1, tfm |-> "expanding_max", args |-> <<>>]>>]

\* a table already sorted by id and time: series id has lens[id] rows at the
\* times 1..lens[id]
SeriesRows(id, n) ==
    [t \in 1..n |-> [id |-> id, ds |-> t, y |-> Obs(id, t), st |-> 7 + (id % 2)]]

SortedTable(lens) ==
    Flatten([k \in 1..Cardinality(DOMAIN lens) |->
                SeriesRows(SortedSeq(DOMAIN lens)[k], lens[SortedSeq(DOMAIN lens)[k]])])

SortedTables ==
    {SortedTable(lens) : lens \in UNION {[S -> 1..MaxLen] : S \in SUBSET Ids \ {{}}}}

Kinds == {"int", "datetime"}

\* the rows a table handed to update is made of
NewRow == {[id |-> id, ds |-> t, y |-> Obs(id, t), st |-> st] :
              id \in Ids \cup {NullId}, t \in NewDates, st \in Statics}

NewTables == UNION {[1..n -> NewRow] : n \in 0..MaxNewRows}

ModelLists == {<<"mix">>, <<"last", "mix">>}

IdLists == {NoIds} \cup {SomeIds(SortedSeq(S)) : S \in SUBSET Ids \ {{}}}

\* the first fit_transform of the object, on a sorted table
FitSortedWith(kinds, keeps, static_lists) ==
    /\ Len(uids) = 0
    /\ \E rows \in SortedTables, kind \in kinds, keep_n \in keeps,
          statics \in static_lists :
         FitTransform([rows |-> rows, kind |-> kind], statics, TRUE, keep_n, None)

FitSorted == FitSortedWith(Kinds, {None, 1}, {<<"st">>})

FitSortedInt == FitSortedWith({"int"}, {None}, {<<"st">>})

\* fit with the column st declared static or left dynamic
FitSortedX == FitSortedWith(Kinds, {None}, {<<"st">>, <<>>})

PredictPlain ==
    \E models \in ModelLists, horizon \in 1..MaxHorizon, ids \in IdLists :
        Predict(models, horizon, ids, NoX)

\* the rows an X_df is made of: a value for an id and a date
XDates == 2..(MaxLen + 2 * MaxHorizon)

XRow == {[id |-> id, ds |-> t, x |-> (id + t) % 2] : id \in Ids, t \in XDates}

\* the X_df tables considered, rows ordered by id and date, a row
\* possibly more than once
XTables == {SortRows(t) : t \in UNION {[1..n -> XRow] : n \in 0..MaxXRows}}

\* the first predict after fit, with an X_df
PredictX ==
    /\ ret.op = "fit_transform"
    /\ \E horizon \in 1..MaxHorizon, ids \in IdLists, col \in {"st", "x"},
          rows \in XTables :
         Predict(<<"mix">>, horizon, ids, SomeX(col, rows))

\* update with new rows, while the ground truth is small and the last call
\* did not fail (a failed update can leave more ids than groups, and the
\* next append_several would read past indptr)
UpdateAny ==
    /\ ret.err = ""
    /\ \E df \in NewTables :
         /\ Len(_ga.data) + Len(df) <= MaxData
         /\ Update(df)

\* the life of one object: fitted, then asked for forecasts
Init == \E f \in {1, 2} :
            Construct(f, 1, TwoLags.lags, TwoLags.lag_transforms, <<>>)

Next ==
    \/ FitSorted
    \/ PredictPlain
    \/ PredictSetup
    \/ PredictStep
    \/ PredictCollect
    \/ PredictFinish

Spec == Init /\ [][Next]_vars

\* the first fit_transform of the object with max_horizon set
FitSortedMulti ==
    /\ Len(uids) = 0
    /\ \E rows \in SortedTables, keep_n \in {None, 1}, horizon \in 1..MaxHorizon :
         FitTransform([rows |-> rows, kind |-> "datetime"], <<"st">>, TRUE,
                      keep_n, horizon)

\* the life of one object: fitted for direct multi-horizon forecasts, then
\* asked for forecasts
InitMulti == Construct(2, 1, TwoLags.lags, TwoLags.lag_transforms, <<>>)

NextMulti ==
    \/ FitSortedMulti
    \/ PredictPlain
    \/ PredictMultiStart
    \/ PredictMultiSetup
    \/ PredictMultiModel
    \/ PredictFinish

SpecMulti == InitMulti /\ [][NextMulti]_vars

\* sorted tables with a null in the target column
NullTables ==
    UNION {{[t EXCEPT ![i].y = NaN] : i \in 1..Len(t)} : t \in SortedTables}

\* fit_transform on an object that has been fitted and has just forecast
Refit ==
    /\ Len(uids) > 0
    /\ ret.op = "predict"
    /\ \E rows \in SortedTables \cup NullTables, kind \in Kinds :
         FitTransform([rows |-> rows, kind |-> kind], <<"st">>, TRUE, None, None)

\* predict for every fitted series with one model
PredictAll ==
    \E horizon \in 1..MaxHorizon : Predict(<<"mix">>, horizon, NoIds, NoX)

\* the life of one object: fitted, asked for forecasts, fitted again
InitRefit == Construct(1, 1, OneLag.lags, OneLag.lag_transforms, <<>>)

NextRefit ==
    \/ FitSorted
    \/ Refit
    \/ PredictAll
    \/ PredictSetup
    \/ PredictStep
    \/ PredictCollect
    \/ PredictFinish

SpecRefit == InitRefit /\ [][NextRefit]_vars

\* an X_df with one row for every series and every date of its horizon, the
\* rows given date by date; the value of a row tells its id and date
XValue(id, t) == 10 * id + t

CompleteX(sel_uids, sel_dates, f, horizon) ==
    Flatten([k \in 1..horizon |->
                [s \in 1..Len(sel_uids) |->
                    [id |-> sel_uids[s],
                     ds |-> sel_dates[s] + k * f,
                     x  |-> XValue(sel_uids[s], sel_dates[s] + k * f)]]])

\* the first predict after fit, with a complete X_df for the column st
PredictCompleteX ==
    /\ ret.op = "fit_transform"
    /\ ret.err = ""
    /\ \E models \in {<<"exo">>, <<"mix", "exo">>}, horizon \in 1..MaxHorizon,
          ids \in IdLists :
         /\ (ids.is_none \/ Range(ids.v) \subseteq Range(uids))
         /\ Predict(models, horizon, ids,
                    SomeX("st", CompleteX(SelUids(uids, ids),
                                          SelDates(uids, last_dates, ids),
                                          freq, horizon)))

InitExo == Construct(2, 1, <<1>>, <<>>, <<>>)

NextExo ==
    \/ FitSortedX
    \/ PredictCompleteX
    \/ PredictSetup
    \/ PredictStep
    \/ PredictCollect
    \/ PredictFinish

SpecExo == InitExo /\ [][NextExo]_vars

\* predict with the model that returns one more than its lag-1 feature
PredictInc ==
    \E models \in {<<"inc">>, <<"mix", "inc">>}, horizon \in 1..MaxHorizon,
       ids \in IdLists :
        Predict(models, horizon, ids, NoX)

\* the life of one object whose first feature is lag1
InitLag == Construct(1, 1, TwoLags.lags, TwoLags.lag_transforms, <<>>)

NextLag ==
    \/ FitSorted
    \/ PredictInc
    \/ PredictSetup
    \/ PredictStep
    \/ PredictCollect
    \/ PredictFinish

SpecLag == InitLag /\ [][NextLag]_vars

\* predict with one model or two, the two in either order
PredictModels ==
    \E models \in {<<"mix">>, <<"inc">>, <<"inc", "mix">>, <<"mix", "inc">>},
       horizon \in 1..MaxHorizon, ids \in {NoIds, SomeIds(<<2>>)} :
        Predict(models, horizon, ids, NoX)

\* the life of one object: fitted, then asked for forecasts again and again
InitModels == Construct(1, 1, TwoLags.lags, TwoLags.lag_transforms, <<>>)

NextModels ==
    \/ FitSortedWith({"int"}, {None, 1}, {<<"st">>})
    \/ PredictModels
    \/ PredictSetup
    \/ PredictStep
    \/ PredictCollect
    \/ PredictFinish

SpecModels == InitModels /\ [][NextModels]_vars

\* the lists of names _name_models is called on
ModelNames == {"a", "b", "a2"}

NameLists == UNION {[1..n -> ModelNames] : n \in 0..MaxNames}

\* a call of _name_models about to run
InitNames ==
    /\ \E current_names \in NameLists :
          call = [op |-> "_name_models", args |-> [current_names |-> current_names]]
    /\ pc = "new"
    /\ freq = 1
    /\ num_threads = 1
    /\ transforms = <<>>
    /\ target_transforms = <<>>
    /\ uids = <<>>
    /\ last_dates = <<>>
    /\ static_features_ = <<>>
    /\ _ga = GroupedArray(<<>>, <<0>>)
    /\ restore_idxs = <<>>
    /\ keep_last_n = None
    /\ max_horizon = None
    /\ static_features = <<>>
    /\ ga = GroupedArray(<<>>, <<0>>)
    /\ curr_dates = <<>>
    /\ test_dates = <<>>
    /\ y_pred = <<>>
    /\ _h = 0
    /\ _uids = <<>>
    /\ _idxs = NoIdxs
    /\ preds = <<>>
    /\ ret = [op |-> "none", err |-> "", out |-> <<>>, args |-> NoArgs]

NameModels ==
    /\ pc = "new"
    /\ call.op = "_name_models"
    /\ ret' = Returned("_name_models", call.args, _name_models(call.args.current_names))
    /\ pc' = "idle"
    /\ call' = NoCall
    /\ UNCHANGED <<config, truth, fitted, work, preds>>

NextNames == NameModels

SpecNames == InitNames /\ [][NextNames]_vars

\* the life of one object with target transforms: fitted, then asked for
\* forecasts
TargetLists == {<<"shift", "diff">>, <<"diff", "shift">>, <<"diff">>, <<"shift">>}

InitTarget == \E target_tfms \in TargetLists :
                  Construct(1, 1, OneLag.lags, OneLag.lag_transforms, target_tfms)

NextTarget ==
    \/ FitSortedInt
    \/ PredictPlain
    \/ PredictSetup
    \/ PredictStep
    \/ PredictCollect
    \/ PredictFinish

SpecTarget == InitTarget /\ [][NextTarget]_vars

\* the life of one object: fitted, then asked once for forecasts with X_df
InitXdf == Construct(2, 1, <<1>>, <<>>, <<>>)

NextXdf ==
    \/ FitSortedX
    \/ PredictX
    \/ PredictSetup
    \/ PredictStep
    \/ PredictCollect
    \/ PredictFinish

SpecXdf == InitXdf /\ [][NextXdf]_vars

\* the tables fit_transform is given: rows of distinct (id, time), in any
\* order
FitPairs == Ids \X (1..MaxLen)

FitTables ==
    {[k \in 1..Len(p) |->
         [id |-> p[k][1], ds |-> p[k][2], y |-> Obs(p[k][1], p[k][2]),
          st |-> 7 + (p[k][1] % 2)]] :
       p \in {q \in UNION {[1..n -> FitPairs] : n \in 1..MaxFitRows} :
                 \A i, j \in 1..Len(q) : q[i] = q[j] => i = j}}

\* the objects fit_transform is called on
NoLags == [lags |-> <<>>, lag_transforms |-> <<>>]

FitConfigs ==
    {[reg |-> NoLags,  target_tfms |-> <<"diff">>],
     [reg |-> OneLag,  target_tfms |-> <<"diff">>],
     [reg |-> OneLag,  target_tfms |-> <<>>],
     [reg |-> TwoLags, target_tfms |-> <<>>]}

\* the first call on the object: fit_transform on any table
FitAny ==
    /\ ret.op = "__init__"
    /\ \E rows \in FitTables, drop \in BOOLEAN,
          horizon \in {None} \cup (1..MaxHorizon) :
         FitTransform([rows |-> rows, kind |-> "int"], <<"st">>, drop, None, horizon)

\* the life of one object: constructed, then fitted
InitFit == \E c \in FitConfigs :
               Construct(1, 1, c.reg.lags, c.reg.lag_transforms, c.target_tfms)

NextFit == FitAny

SpecFit == InitFit /\ [][NextFit]_vars

\* the arguments __init__ is given: lags, and the items of lag_transforms
\* in the order the dict is read (the functions of a lag side by side)
RegLags == UNION {[1..n -> {1, 2}] : n \in 0..MaxLags}

RegItem == {[lag |-> lag, tfm |-> f.tfm, args |-> f.args] :
               lag \in {1, 2},
               f \in {[tfm |-> "expanding_max", args |-> <<>>],
                      [tfm |-> "rolling_max", args |-> <<2>>],
                      [tfm |-> "rolling_max", args |-> <<2, None>>]}}

RegTransforms ==
    {t \in UNION {[1..n -> RegItem] : n \in 0..MaxTransforms} :
        \A i, j \in 1..Len(t) :
            (i < j /\ t[i].lag = t[j].lag) =>
                \A k \in i..j : t[k].lag = t[i].lag}

\* lines 161-168 of __init__: the registry is built from the arguments
Register ==
    /\ pc = "new"
    /\ transforms' = BuildTransforms(call.args.lags, call.args.lag_transforms)
    /\ ret' = Returned("__init__", call.args, <<>>)
    /\ pc' = "idle"
    /\ call' = NoCall
    /\ UNCHANGED <<freq, num_threads, truth, fitted, work, preds>>

\* an object about to be constructed with some lags and lag_transforms
InitRegistry ==
    /\ \E lags \in RegLags, lag_transforms \in RegTransforms :
          call = [op |-> "__init__",
                  args |-> [lags |-> lags, lag_transforms |-> lag_transforms]]
    /\ pc = "new"
    /\ freq = 1
    /\ num_threads = 1
    /\ transforms = <<>>
    /\ target_transforms = <<>>
    /\ uids = <<>>
    /\ last_dates = <<>>
    /\ static_features_ = <<>>
    /\ _ga = GroupedArray(<<>>, <<0>>)
    /\ restore_idxs = <<>>
    /\ keep_last_n = None
    /\ max_horizon = None
    /\ static_features = <<>>
    /\ ga = GroupedArray(<<>>, <<0>>)
    /\ curr_dates = <<>>
    /\ test_dates = <<>>
    /\ y_pred = <<>>
    /\ _h = 0
    /\ _uids = <<>>
    /\ _idxs = NoIdxs
    /\ preds = <<>>
    /\ ret = [op |-> "none", err |-> "", out |-> <<>>, args |-> NoArgs]

NextRegistry == Register

SpecRegistry == InitRegistry /\ [][NextRegistry]_vars

\* the life of one object with a thread pool: fitted, then its transforms
\* computed by the pool, over the whole history or for the update only
LagsOnly == [lags |-> <<1, 2>>, lag_transforms |-> <<>>]

\* registries with a function that raises, at one lag and at two
OneRaising  == [lags |-> <<1, 2>>,
                lag_transforms |-> <<[lag |-> 1, tfm |-> "raising", args |-> <<>>]>>]
TwoRaising  == [lags |-> <<1>>,
                lag_transforms |-> <<[lag |-> 1, tfm |-> "raising", args |-> <<>>],
                                     [lag |-> 2, tfm |-> "raising", args |-> <<>>]>>]

InitEngine == \E nthreads \in {2, 3},
                 c \in {LagsOnly, TwoLags, OneRaising, TwoRaising} :
                  Construct(1, nthreads, c.lags, c.lag_transforms, <<>>)

PoolOpenAny == \E updates_only \in BOOLEAN : PoolOpen(updates_only)

NextEngine ==
    \/ FitSortedInt
    \/ PoolOpenAny
    \/ PoolSubmit
    \/ WorkerStart
    \/ WorkerFinish
    \/ PoolCollect
    \/ PoolReturn
    \/ PoolCollectFailed
    \/ PoolRaise

SpecEngine == InitEngine /\ [][NextEngine]_vars

\* the life of one object: fitted, then updated with new rows
InitUpdate == Construct(1, 1, <<1>>, <<>>, <<>>)

NextUpdate ==
    \/ FitSortedInt
    \/ UpdateAny

SpecUpdate == InitUpdate /\ [][NextUpdate]_vars

\* ----------------------------------------------------- properties of update
\* a step that is a whole call of update
UpdateStep == pc = "idle" /\ pc' = "idle" /\ ret'.op = "update"

\* the row the static table holds for an id
StaticRow(table, id) ==
    table[CHOOSE i \in 1..Len(table) : table[i].id = id]

HasStaticRow(table, id) ==
    Cardinality({i \in 1..Len(table) : table[i].id = id}) = 1

MaxDs(rows, id) ==
    SetMax({rows[k].ds : k \in {j \in 1..Len(rows) : rows[j].id = id}})

\* C4: an update that returns leaves every group that was there in place
\* and never shorter: group j, the series uids[j] before the call, has its
\* old length plus the number of new rows of that id (its old length when
\* the table has none); so when every known id has new rows and no id is
\* new, every group grows by exactly its count of new rows.
C4_UpdateGrowsGroups ==
    [][(UpdateStep /\ ret'.err = "") =>
          /\ n_groups(_ga') >= n_groups(_ga)
          /\ \A j \in 1..Len(uids) :
                /\ GroupLen(_ga', j) >= GroupLen(_ga, j)
                /\ GroupLen(_ga', j) =
                       GroupLen(_ga, j) + CountOf(ret'.args.df, uids[j])
                /\ SubSeq(GroupOf(_ga', j), 1, GroupLen(_ga, j)) = GroupOf(_ga, j)]_vars

\* an update has returned, having added two rows to a series fitted before
\* and a new group beside it
C4_Witness ==
    /\ ret.op = "update"
    /\ ret.err = ""
    /\ Len(ret.args.df) = 2
    /\ \E j \in 1..n_groups(_ga) : GroupLen(_ga, j) >= 3

C10_FailedUpdateChangesNothing ==
    [][(UpdateStep /\ ret'.err = "InconsistentSizeError") =>
          /\ uids' = uids
          /\ last_dates' = last_dates
          /\ static_features_' = static_features_
          /\ _ga' = _ga]_vars

\* ---------------------------------------------------- properties of predict
\* a step taken inside a call of predict
InPredict == pc # "idle" \/ pc' # "idle" \/ ret'.op = "predict"

\* the place in the ground truth of the k-th active series
TruthIdx(k) == IndexOf(uids, _uids[k])

\* the length the k-th active series has right after setup
LenAfterSetup(k) ==
    IF keep_last_n # None /\ keep_last_n < GroupLen(_ga, TruthIdx(k))
    THEN keep_last_n
    ELSE GroupLen(_ga, TruthIdx(k))

\* C1: when the simulation of a model ends, every active group of the
\* working GroupedArray is horizon observations longer than it was right
\* after setup (after each step: one longer per step taken), and no step of
\* a predict call changes the data or the indptr of the ground truth.
C1_RecursiveAppendsHorizon ==
    /\ [](pc \in {"step", "finish"} =>
            /\ n_groups(ga) = Len(_uids)
            /\ \A k \in 1..Len(_uids) :
                  GroupLen(ga, k) = LenAfterSetup(k) + Len(y_pred)
            /\ pc = "finish" => Len(y_pred) = call.args.horizon)
    /\ [][InPredict => _ga' = _ga]_vars

\* a call with one model and the longest horizon, over a selection of the
\* series and with only the last observation kept, is about to return
C1_Witness ==
    /\ pc = "finish"
    /\ Len(call.args.models) = 1
    /\ call.args.horizon = MaxHorizon
    /\ ~_idxs.is_none
    /\ keep_last_n = 1
    /\ GroupLen(_ga, TruthIdx(1)) > 1
    /\ GroupLen(ga, 1) = 1 + MaxHorizon

\* C2: the table a model's simulation is collected into has one row per
\* active series and step, series by series: the row of the s-th active
\* series and step k is at place (s-1)*horizon + k and carries the id of
\* that series, its last date plus k times freq and the value predicted for
\* it at step k; the table predict returns is that table.
C2_SeriesThenStepOrder ==
    [][/\ (pc = "step" /\ pc' \in {"setup", "finish"}) =>
            /\ Len(preds') = Len(_uids) * call.args.horizon
            /\ \A s \in 1..Len(_uids) : \A k \in 1..call.args.horizon :
                  LET row == preds'[(s - 1) * call.args.horizon + k]
                  IN /\ row.id = _uids[s]
                     /\ row.ds = last_dates[TruthIdx(s)] + k * freq
                     /\ Len(row.vals) = call.i
                     /\ row.vals[call.i] = y_pred[k][s]
                     /\ \A m \in 1..(call.i - 1) :
                           row.vals[m] = preds[(s - 1) * call.args.horizon + k].vals[m]
       /\ (pc = "finish" /\ pc' = "idle") =>
            /\ ret'.err = ""
            /\ ret'.out = preds]_vars

\* predict has returned two steps for each of two series whose last dates
\* differ, the steps of a series two time units apart
C2_Witness ==
    /\ ret.op = "predict"
    /\ ret.err = ""
    /\ ret.args.horizon = 2
    /\ Len(ret.out) = 4
    /\ freq = 2
    /\ last_dates[1] # last_dates[2]
    /\ ret.out[1].vals # ret.out[2].vals

\* C8: every setup of a simulation puts the simulated dates back to the
\* stored last dates of the active series, every step moves each of them on
\* by freq, no step of a predict call changes the stored last dates, and a
\* predict call that follows a predict call with the same arguments returns
\* the same table.
C8_DatesResetEachCall ==
    [][/\ (pc = "setup" /\ pc' = "step") =>
            /\ Len(curr_dates') = Len(_uids)
            /\ \A k \in 1..Len(_uids) : curr_dates'[k] = last_dates[TruthIdx(k)]
       /\ (pc = "step" /\ _h' = _h + 1) =>
            /\ Len(curr_dates') = Len(curr_dates)
            /\ \A k \in 1..Len(curr_dates) : curr_dates'[k] = curr_dates[k] + freq
       /\ InPredict => last_dates' = last_dates
       /\ (pc = "finish" /\ pc' = "idle" /\ ret.op = "predict" /\ ret.err = ""
              /\ ret.args = call.args) =>
            ret'.out = ret.out]_vars

\* a second call with the arguments of the call before it, two steps for
\* the second of two series whose last dates differ, is about to return
C8_Witness ==
    /\ pc = "finish"
    /\ ret.op = "predict"
    /\ ret.err = ""
    /\ ret.args = call.args
    /\ call.args.horizon = 2
    /\ _uids = <<2>>
    /\ Len(uids) = 2
    /\ last_dates[1] # last_dates[2]

\* the rows of X about series id at date t
XCount(X, id, t) ==
    Cardinality({i \in 1..Len(X.rows) : X.rows[i].id = id /\ X.rows[i].ds = t})

\* C6: predict with an X_df reaches the step loop only when X_df has
\* exactly one row for every requested series and every date of its
\* horizon (its last date plus k times freq, k in 1..horizon).
C6_XdfOneRowPerIdAndDate ==
    [][(pc = "idle" /\ pc' = "setup" /\ ~call'.args.X.is_none) =>
          \A s \in 1..Len(_uids') : \A k \in 1..call'.args.horizon :
              XCount(call'.args.X, _uids'[s],
                     last_dates[IndexOf(uids, _uids'[s])] + k * freq) = 1]_vars

\* ---------------------------------------------- properties of fit_transform
\* the place of input row r in the sorted buffer: after the groups of the
\* smaller ids and the rows of its own series that are not later than it
BufferPos(rows, r) ==
    _ga.indptr[IndexOf(uids, rows[r].id)]
      + Cardinality({q \in 1..Len(rows) :
                        rows[q].id = rows[r].id /\ rows[q].ds <= rows[r].ds})

\* the features and the target computed at the place of input row r
FeaturesAt(rows, r) ==
    [i \in 1..Len(transforms) |->
        RunTransform(transforms[i], _ga, FALSE)[BufferPos(rows, r)]]

TargetAt(rows, r) ==
    IF max_horizon = None THEN <<_ga.data[BufferPos(rows, r)]>>
    ELSE expand_target(_ga, max_horizon)[BufferPos(rows, r)]

\* no feature of row r is NaN, and its target (one of its targets, with
\* max_horizon set) is not null
Complete(rows, r) ==
    /\ \A i \in 1..Len(transforms) : FeaturesAt(rows, r)[i] # NaN
    /\ \E k \in 1..Len(TargetAt(rows, r)) : TargetAt(rows, r)[k] # NaN

\* C7: the table fit_transform returns holds, in the order of the input,
\* with dropna the rows that have no NaN feature and a target that is not
\* null (with max_horizon set: not null at every horizon), without dropna
\* every row; each row it holds carries the id, the time, the features and
\* the target of its own input row.
C7_DropnaKeepsCompleteRows ==
    (ret.op = "fit_transform" /\ ret.err = "") =>
        LET rows == ret.args.df.rows
            kept == SelectIdx([r \in 1..Len(rows) |-> r],
                              [r \in 1..Len(rows) |->
                                  ~ret.args.dropna \/ Complete(rows, r)], 1)
        IN /\ Len(ret.out) = Len(kept)
           /\ \A k \in 1..Len(kept) :
                 /\ ret.out[k].row = kept[k]
                 /\ ret.out[k].id = rows[kept[k]].id
                 /\ ret.out[k].ds = rows[kept[k]].ds
                 /\ ret.out[k].feats = FeaturesAt(rows, kept[k])
                 /\ ret.out[k].target = TargetAt(rows, kept[k])

\* a table given in an unsorted order was fitted with dropna and
\* max_horizon 2: a first row was dropped for its NaN lag, and a row whose
\* second horizon is null was kept
C7_Witness ==
    /\ ret.op = "fit_transform"
    /\ ret.err = ""
    /\ ret.args.dropna
    /\ max_horizon = 2
    /\ ~IsSorted(ret.args.df.rows)
    /\ Len(transforms) > 0
    /\ Len(ret.out) > 0
    /\ Len(ret.out) < Len(ret.args.df.rows)
    /\ \E k \in 1..Len(ret.out) : ret.out[k].target[2] = NaN

\* ------------------------------------------------ properties of the registry
\* the names of everything registered, in the order of registration
RegisteredNames(args) ==
    [i \in 1..Len(args.lags) |-> "lag" \o ToString(args.lags[i])]
      \o [i \in 1..Len(args.lag_transforms) |->
             _build_transform_name(args.lag_transforms[i].lag,
                                   args.lag_transforms[i].tfm,
                                   args.lag_transforms[i].args)]

\* what was registered, in the order of registration
RegisteredValues(args) ==
    [i \in 1..Len(args.lags) |->
        [lag |-> args.lags[i], tfm |-> "_identity", args |-> <<>>]]
      \o args.lag_transforms

FirstAt(names, n) == CHOOSE i \in 1..Len(names) :
    names[i] = n /\ \A j \in 1..(i - 1) : names[j] # n

LastAt(names, n) == CHOOSE i \in 1..Len(names) :
    names[i] = n /\ \A j \in (i + 1)..Len(names) : names[j] # n

Constructed == pc = "idle" /\ ret.op = "__init__"

SameMapping(a, b) ==
    /\ Len(a) = Len(b)
    /\ {a[i].name : i \in 1..Len(a)} = {b[i].name : i \in 1..Len(b)}
    /\ Cardinality({a[i].name : i \in 1..Len(a)}) = Len(a)
    /\ \A i \in 1..Len(a) : a[i].vals = DictGet(b, a[i].name)

\* C3: whatever the order the tasks of the pool complete and are collected
\* in, over the whole history or for the update only, the results dict of
\* the thread-pool pass holds under every name the buffer the sequential
\* pass computes for it, and the columns handed on are those of the
\* sequential pass in registration order.
C3_PoolEqualsSequential ==
    (pc = "idle" /\ ret.op = PoolOp /\ ret.err = "") =>
        LET sequential == _apply_transforms(transforms, ga, ret.args.updates_only)
        IN /\ SameMapping(ret.out.results, sequential)
           /\ ret.out.columns =
                  [i \in 1..Len(transforms) |-> sequential[i].vals]

\* a pass for the update only has returned a results dict whose first entry
\* is the last transform of a registry of three
C3_Witness ==
    /\ pc = "idle"
    /\ ret.op = PoolOp
    /\ ret.err = ""
    /\ ret.args.updates_only
    /\ Len(transforms) = 3
    /\ ret.out.results[1].name = transforms[3].name
    /\ ret.out.columns[1] # ret.out.columns[2]

\* an error that tells a feature name: the name alone or after the kind
\* of the error
NamesFeature(err, name) ==
    \E kind \in {"", "ValueError: ", "TransformFailure: "} : err = kind \o name

\* C11: when a transform raises in a worker of the pool the call raises
\* one error, the error tells the name of a feature whose function raised,
\* and no results are handed to the caller.
C11_PoolErrorNamesFeature ==
    (pc = "idle" /\ ret.op = PoolOp /\ ret.err # "") =>
        /\ ret.out = <<>>
        /\ \E i \in 1..Len(transforms) :
              /\ Raises(transforms[i])
              /\ NamesFeature(ret.err, transforms[i].name)

\* ---------------------------------- properties of direct multi-horizon predict
\* a step of a predict call, in direct multi-horizon mode, that asks for
\* more steps than were fitted
TooLargeCall(c) ==
    /\ c.op = "predict"
    /\ max_horizon # None
    /\ c.args.horizon > max_horizon

\* C12: a predict call in direct multi-horizon mode whose horizon is larger
\* than max_horizon raises as soon as the mode is entered: no setup and no
\* model step is taken, and the working GroupedArray, the step counter, the
\* prediction buffer and the simulated dates are as they were before the
\* call.
C12_HorizonCheckedFirst ==
    [][/\ (TooLargeCall(call') \/ TooLargeCall(call)) =>
            /\ ga' = ga
            /\ _h' = _h
            /\ y_pred' = y_pred
            /\ curr_dates' = curr_dates
            /\ test_dates' = test_dates
       /\ TooLargeCall(call) =>
            /\ pc = "multi"
            /\ pc' = "idle"
            /\ ret'.op = "predict"
            /\ ret'.err = "HorizonTooLargeError"]_vars

\* after a call that has returned, leaving a working GroupedArray cut to
\* the last observation of each of two series and the step counter at one,
\* a call with too large a horizon has raised
C12_Witness ==
    /\ pc = "idle"
    /\ ret.op = "predict"
    /\ ret.err = "HorizonTooLargeError"
    /\ ret.args.horizon = max_horizon + 1
    /\ _h = 1
    /\ n_groups(ga) = 2
    /\ Len(ga.data) < Len(_ga.data)
    /\ curr_dates # last_dates

\* C18: a predict call in direct multi-horizon mode over a list of ids,
\* with a horizon within max_horizon, builds a table of horizon rows for
\* each requested id, the row of the s-th requested id and step k carrying
\* that id and its last date plus k times freq.
C18_MultiSubsetDates ==
    [][(pc = "multi" /\ ~call.args.ids.is_none
          /\ call.args.horizon <= max_horizon) =>
          /\ pc' = "msetup"
          /\ Len(preds') = Len(_uids) * call.args.horizon
          /\ \A s \in 1..Len(_uids) : \A k \in 1..call.args.horizon :
                LET row == preds'[(s - 1) * call.args.horizon + k]
                IN /\ row.id = _uids[s]
                   /\ row.ds = last_dates[TruthIdx(s)] + k * freq]_vars

\* C13: a predict call whose ids list holds an id that is not in the id
\* index raises the unseen-ids error and never starts, and the step that
\* raises it changes nothing: the ground truth, the working GroupedArray,
\* the simulated dates, the prediction buffer, the step counter and the
\* active-id selection are those of the state before.
C13_UnseenIdsChangeNothing ==
    [][/\ (pc = "idle" /\ call'.op = "predict") =>
            \/ call'.args.ids.is_none
            \/ Range(call'.args.ids.v) \subseteq Range(uids)
       /\ (pc = "idle" /\ pc' = "idle" /\ ret'.op = "predict"
              /\ ret'.err = "UnseenIdsError") =>
            /\ ~ret'.args.ids.is_none
            /\ Range(ret'.args.ids.v) \ Range(uids) # {}
            /\ UNCHANGED <<config, truth, fitted, work, call, preds>>]_vars

\* after a call that returned two steps, a call for an id that was never
\* fitted, beside one that was, has raised
C13_Witness ==
    /\ pc = "idle"
    /\ ret.op = "predict"
    /\ ret.err = "UnseenIdsError"
    /\ uids = <<1>>
    /\ ret.args.ids.v = <<1, 2>>
    /\ Len(y_pred) = 2
    /\ curr_dates # last_dates

\* --------------------------------------------- properties of target transforms
\* the sorted target after the first n target transforms, each applied to
\* what the one before it made
FittedThrough(rows, n) ==
    IF n = 0 THEN FitGA(rows)
    ELSE IF n = 1 THEN TargetFitTransform(target_transforms[1], FitGA(rows)).ga
    ELSE TargetFitTransform(
             target_transforms[2],
             TargetFitTransform(target_transforms[1], FitGA(rows)).ga).ga

\* the table of predictions after the inverses of the last n target
\* transforms, the last transform's first
InvertedThrough(table, idxs, horizon, n) ==
    LET last == Len(target_transforms)
    IN IF n = 0 THEN table
       ELSE IF n = 1
       THEN TargetInverseTransform(target_transforms[last], idxs, table, horizon)
       ELSE TargetInverseTransform(
                target_transforms[last - 1], idxs,
                TargetInverseTransform(target_transforms[last], idxs, table, horizon),
                horizon)

\* C14: fit stores the target made by the first transform and then the
\* second; while the models of a predict call run the table holds their
\* predictions as they made them; the table returned is the table of every
\* model's predictions with the inverse of the last transform applied once
\* and then the inverse of the one before it applied once.
C14_TargetTransformOrder ==
    [][/\ (pc = "idle" /\ ret'.op = "fit_transform" /\ ret'.err = ""
              /\ ret' # ret) =>
            _ga' = FittedThrough(ret'.args.df.rows, Len(target_transforms))
       /\ (pc = "step" /\ pc' \in {"setup", "finish"}) =>
            \A s \in 1..Len(_uids) : \A k \in 1..call.args.horizon :
                preds'[(s - 1) * call.args.horizon + k].vals[call.i] = y_pred[k][s]
       /\ (pc = "finish" /\ pc' = "idle") =>
            /\ \A r \in 1..Len(preds) :
                  Len(preds[r].vals) = Len(call.args.models)
            /\ ret'.out = InvertedThrough(preds, _idxs, call.args.horizon,
                                          Len(target_transforms))]_vars

\* with shift registered before diff, a call for two models, two steps and
\* the second of two series has returned
C14_Witness ==
    /\ pc = "idle"
    /\ ret.op = "predict"
    /\ ret.err = ""
    /\ Len(target_transforms) = 2
    /\ target_transforms[1].name = "shift"
    /\ Len(ret.args.models) = 2
    /\ ret.args.horizon = 2
    /\ ret.args.ids.v = <<2>>
    /\ Len(uids) = 2

\* ------------------------------------------------- properties of a failed fit
\* a step that is a call of fit_transform
FitStep == pc = "idle" /\ pc' = "idle" /\ ret'.op = "fit_transform"

HasNullTarget(df) == \E i \in 1..Len(df.rows) : df.rows[i].y = NaN

\* C15: a fit_transform on a table with a null in the target column, or with
\* a timestamp time column while the frequency is 1, raises and leaves the
\* ids, the last dates, both GroupedArrays, the static table and the
\* frequency of the earlier fit as they were.
C15_FailedFitChangesNothing ==
    [][(/\ FitStep
        /\ \/ HasNullTarget(ret'.args.df)
           \/ ret'.args.df.kind = "datetime" /\ freq = 1) =>
          /\ ret'.err \in {"NullTargetError", "MissingFrequencyError"}
          /\ ret'.out = <<>>
          /\ UNCHANGED <<uids, last_dates, _ga, ga, static_features_, freq>>]_vars

\* an object fitted on two series and asked for forecasts has been given a
\* table with a null target
C15_Witness ==
    /\ pc = "idle"
    /\ ret.op = "fit_transform"
    /\ ret.err = "NullTargetError"
    /\ Len(uids) = 2
    /\ ga # _ga
    /\ Len(ret.args.df.rows) = 1

\* ------------------------------------------------- properties of _name_models
\* how many of the first i names are the i-th name
OccurrenceAt(names, i) == Cardinality({k \in 1..i : names[k] = names[i]})

\* how many names after the i-th are the i-th name
LaterOccurrences(names, i) ==
    Cardinality({k \in (i + 1)..Len(names) : names[k] = names[i]})

\* C16: _name_models returns a list as long as the one it is given, in
\* which the first occurrence of a name (and so a name occurring once) is
\* left as it is and the j-th occurrence, j >= 2, is the name followed by j;
\* j is the number of occurrences of the name less those after this one.
C16_NameModelsSuffixes ==
    (pc = "idle" /\ ret.op = "_name_models") =>
        LET names == ret.args.current_names
        IN /\ ret.err = ""
           /\ Len(ret.out) = Len(names)
           /\ \A i \in 1..Len(names) :
                 /\ OccurrenceAt(names, i) = 1 => ret.out[i] = names[i]
                 /\ OccurrenceAt(names, i) >= 2 =>
                       ret.out[i] = names[i] \o ToString(OccurrenceAt(names, i))
                 /\ OccurrenceAt(names, i) =
                       Counter(names)[names[i]] - LaterOccurrences(names, i)

\* a list with a name three times around a name occurring once
C16_Witness ==
    /\ pc = "idle"
    /\ ret.op = "_name_models"
    /\ ret.args.current_names = <<"a", "b", "a", "a">>
    /\ ret.out = <<"a", "b", "a2", "a3">>

\* ------------------------------------------- properties of the X_df of a step
\* the value X_df has for an id and a date
XValueOf(X, id, t) ==
    (CHOOSE r \in Range(X.rows) : r.id = id /\ r.ds = t).x

\* C17: at step k of a recursive predict with X_df, the model that returns
\* the exogenous column of its feature rows returns, for every requested
\* series s, the value of the X_df row of s dated k steps after the last
\* date of s.
C17_StepReadsOwnXdfRow ==
    [][(/\ pc = "step"
        /\ pc' = "step"
        /\ ~call.args.X.is_none
        /\ CurrentModel = "exo"
        /\ Len(y_pred') = Len(y_pred) + 1) =>
          \A s \in 1..Len(_uids) :
              y_pred'[Len(y_pred')][s] =
                  XValueOf(call.args.X, _uids[s],
                           last_dates[TruthIdx(s)] + Len(y_pred') * freq)]_vars

\* --------------------------------------------- properties of the step loop
\* the last observation the ground truth holds for the k-th active series
LastObserved(k) == GroupOf(_ga, TruthIdx(k))[GroupLen(_ga, TruthIdx(k))]

\* C19: in a step of the model that returns its lag-1 feature plus one, the
\* lag-1 feature of every active series is, at step 1, the last observation
\* of the series and, at step k+1, the prediction of step k, which is the
\* last value of the series in the working GroupedArray when the step
\* starts.
C19_StepsAreSequential ==
    [][(/\ pc = "step"
        /\ pc' = "step"
        /\ transforms[1].name = "lag1"
        /\ CurrentModel = "inc"
        /\ Len(y_pred') = Len(y_pred) + 1) =>
          \A s \in 1..Len(_uids) :
              /\ Len(y_pred) = 0 => y_pred'[1][s] - 1 = LastObserved(s)
              /\ Len(y_pred) > 0 =>
                    /\ y_pred'[Len(y_pred')][s] - 1 = y_pred[Len(y_pred)][s]
                    /\ GroupOf(ga, s)[GroupLen(ga, s)] = y_pred[Len(y_pred)][s]]_vars

\* the second model of a call has taken two steps for the second of two
\* series, of which only the last observation is kept
C19_Witness ==
    /\ pc = "step"
    /\ call.i = 2
    /\ CurrentModel = "inc"
    /\ Len(y_pred) = 2
    /\ _uids = <<2>>
    /\ Len(uids) = 2
    /\ keep_last_n = 1
    /\ y_pred[2][1] = y_pred[1][1] + 1
    /\ y_pred[1][1] = LastObserved(1) + 1

\* ------------------------------------------ properties of several models
\* the call about to return asked for the horizon and the ids of the call
\* that returned before it
SameQuestion ==
    /\ ret.op = "predict"
    /\ ret.err = ""
    /\ ret.args.horizon = call.args.horizon
    /\ ret.args.ids = call.args.ids

\* C20: when a recursive predict returns after another that asked for the
\* same horizon and ids, a model given to both has the same column in both
\* tables, whatever other models each call had and wherever the model stood
\* among them.
C20_ModelColumnIndependent ==
    [][(pc = "finish" /\ pc' = "idle" /\ SameQuestion) =>
          \A i \in 1..Len(call.args.models), j \in 1..Len(ret.args.models) :
              call.args.models[i] = ret.args.models[j] =>
                  /\ Len(ret'.out) = Len(ret.out)
                  /\ \A r \in 1..Len(ret.out) :
                        ret'.out[r].vals[i] = ret.out[r].vals[j]]_vars

\* a call with the models mix and inc is about to return after a call with
\* inc and mix for the same two steps of both series, and the columns of
\* the two models differ
C20_Witness ==
    /\ pc = "finish"
    /\ SameQuestion
    /\ call.args.models = <<"mix", "inc">>
    /\ ret.args.models = <<"inc", "mix">>
    /\ call.args.horizon = 2
    /\ Len(_uids) = 2
    /\ \E r \in 1..Len(preds) : preds[r].vals[1] # preds[r].vals[2]

\* ------------------------------------- properties of direct multi-horizon
\* the place in the result of the s-th active series and step k
MultiRow(s, k) == (s - 1) * call.args.horizon + k

\* C21: in direct multi-horizon mode every model gets one setup followed by
\* one step that computes the features: the step counter goes from 0 to 1,
\* the working GroupedArray and the prediction buffer stay as setup left
\* them (nothing appended), and the model's column holds, for every series,
\* what its estimators 0..horizon-1 make of one and the same feature row
\* (for the model returning its lag-1 feature: the last observation).
C21_MultiOneFeatureStep ==
    [][/\ pc = "msetup" => pc' = "mmodel" /\ call' = call /\ preds' = preds
       /\ pc = "mmodel" =>
            /\ _h = 0
            /\ _h' = 1
            /\ y_pred = <<>>
            /\ y_pred' = <<>>
            /\ ga' = ga
            /\ \A s \in 1..Len(_uids) : GroupLen(ga, s) = LenAfterSetup(s)
            /\ pc' \in {"msetup", "finish"}
            /\ pc' = "msetup" <=> call.i < Len(call.args.models)
            /\ pc' = "msetup" => call'.i = call.i + 1
            /\ \A r \in 1..Len(preds') : Len(preds'[r].vals) = call.i
            /\ \A s \in 1..Len(_uids) : \A k \in 1..call.args.horizon :
                  /\ preds'[MultiRow(s, k)].vals[call.i] =
                        preds'[MultiRow(s, 1)].vals[call.i] + (k - 1)
                  /\ CurrentModel = "last" =>
                        preds'[MultiRow(s, k)].vals[call.i] = LastObserved(s) + (k - 1)]_vars

\* a call for two models and two steps of two series, of which only the
\* last observation is kept, is about to return
C21_Witness ==
    /\ pc = "finish"
    /\ max_horizon = 2
    /\ call.args.horizon = 2
    /\ Len(call.args.models) = 2
    /\ Len(_uids) = 2
    /\ keep_last_n = 1
    /\ _h = 1
    /\ y_pred = <<>>
    /\ preds[2].vals[1] = preds[1].vals[1] + 1

\* ------------------------------------------- properties of restore_idxs
\* C22: after fit_transform on a table in any order, restore_idxs undoes
\* the sort (the row the sort put at place k is sent back to k), the place
\* it gives an input row is the place of the row's time within its series
\* in the sorted buffer, the buffer holds the targets in sorted order, and
\* every row returned carries the features and the target computed at the
\* place of its own input row in the sorted buffer.
C22_RestoreInvertsSort ==
    (pc = "idle" /\ ret.op = "fit_transform" /\ ret.err = "") =>
        LET rows == ret.args.df.rows
        IN /\ Len(restore_idxs) = Len(rows)
           /\ \A k \in 1..Len(rows) : restore_idxs[SortIdxs(rows)[k]] = k
           /\ \A r \in 1..Len(rows) :
                 /\ restore_idxs[r] = SortRank(rows, r)
                 /\ restore_idxs[r] = BufferPos(rows, r)
           /\ Len(target_transforms) = 0 =>
                 \A k \in 1..Len(rows) : _ga.data[k] = SortRows(rows)[k].y
           /\ \A k \in 1..Len(ret.out) :
                 LET at == SortRank(rows, ret.out[k].row)
                 IN /\ ret.out[k].feats =
                          [i \in 1..Len(transforms) |->
                              RunTransform(transforms[i], _ga, FALSE)[at]]
                    /\ ret.out[k].target =
                          (IF max_horizon = None THEN <<_ga.data[at]>>
                           ELSE expand_target(_ga, max_horizon)[at])

\* a table of three rows given in an order whose sort permutation is not
\* its own inverse was fitted without dropna, with two features
C22_Witness ==
    /\ pc = "idle"
    /\ ret.op = "fit_transform"
    /\ ret.err = ""
    /\ ~ret.args.dropna
    /\ Len(ret.args.df.rows) = 3
    /\ Len(ret.out) = 3
    /\ restore_idxs # SortIdxs(ret.args.df.rows)
    /\ Len(uids) = 2
    /\ Len(transforms) > 1

\* ------------------------------------- properties of the ground truth
\* the series an observation belongs to (see Obs)
SeriesOf(v) == v \div 10

\* C23: after a fit_transform or an update that returned, the id index,
\* the last dates, the static table and the groups of the ground truth are
\* equally many, and at every place the row of the static table and the
\* observations of the group are those of the id at that place.
C23_TruthAgreesPositionally ==
    (pc = "idle" /\ ret.op \in {"fit_transform", "update"} /\ ret.err = "") =>
        /\ Len(last_dates) = Len(uids)
        /\ Len(static_features_) = Len(uids)
        /\ n_groups(_ga) = Len(uids)
        /\ \A i \in 1..Len(uids) :
              /\ static_features_[i].id = uids[i]
              /\ \A k \in 1..GroupLen(_ga, i) :
                    SeriesOf(GroupOf(_ga, i)[k]) = uids[i]
====
